---- MODULE Spec2Model ----
(***************************************************************************)
(* Model of instant-distance-py/src/lib.rs: the Python-facing facade of    *)
(* the HNSW index (Hnsw), its reusable search buffer (Search) with the     *)
(* result cursor, the fixed-width point (FloatArray) with its conversion   *)
(* from a Python value and its SIMD squared-Euclidean distance.            *)
(*                                                                         *)
(* Coordinates are integers, which 32-bit floats hold exactly below 2^24;  *)
(* every sum formed by the model stays below that.                         *)
(***************************************************************************)
EXTENDS Integers, Sequences, FiniteSets, TLC

VARIABLES
    hnsw,     \* the Hnsw objects: slot -> Null or the engine state (inner)
    files,    \* the file system: file name -> contents
    search,   \* the Search objects: buffer -> [inner, cur]
    ret,      \* the last call and what it returned
    hist,     \* per buffer: what has been observed since the last successful query
    pyval,    \* the Python value handed to FloatArray::try_from
    conv,     \* the result of that conversion
    lhs,      \* distance: self
    rhs,      \* distance: rhs
    dist      \* distance: the value returned

vars == <<hnsw, files, search, ret, hist, pyval, conv, lhs, rhs, dist>>

\* ---------------------------------------------------------------- constants

DIMENSIONS == 300

\* Largest magnitude of a coordinate of the points that are measured or indexed.
MaxVal == 2
\* Input sequences run up to DIMENSIONS + MaxExtra elements.
MaxExtra == 2
\* ... and the short ones up to MaxShort elements.
MaxShort == 3
\* Number of value patterns the input sequences are filled with.
NumPatterns == 2

\* ---------------------------------------------------------------- Result / Option

Ok(v) == [ok |-> TRUE, val |-> <<v>>, err |-> "none"]
Err(kind) == [ok |-> FALSE, val |-> <<>>, err |-> kind]
Unwrap(r) == r.val[1]

None == <<>>
Some(x) == <<x>>

\* The value a table holds for a key, or the one computed when it holds none.
Cached(table, key, computed) ==
    IF key \in DOMAIN table THEN table[key] ELSE computed

\* The function that maps each x of S to F(x), its values computed once.
RECURSIVE Tabulate(_, _)
Tabulate(F(_), S) ==
    IF S = {} THEN <<>>
    ELSE LET x == CHOOSE y \in S : TRUE
         IN (x :> F(x)) @@ Tabulate(F, S \ {x})

\* ---------------------------------------------------------------- Python values

\* A Python object is a number, or something extract::<f32>() rejects.
PyNum(v) == <<"num", v>>
PyStr == <<"str", 0>>
\* A Python value handed to try_from: an iterable with its items, or not iterable.
PyIterable(items) == [iterable |-> TRUE, items |-> items]
PyNotIterable == [iterable |-> FALSE, items |-> <<>>]

Pow2(n) == 2 ^ n

RECURSIVE Log2Floor(_)
Log2Floor(n) == IF n < 2 THEN 0 ELSE 1 + Log2Floor(n \div 2)

Abs(v) == IF v < 0 THEN 0 - v ELSE v

\* PyFloat_AsDouble(obj) as f32: the nearest value with a 24-bit significand,
\* ties to the even one.
\* The distance between neighbouring 32-bit floats at the magnitude a >= 0.
Quantum(a) == IF a < Pow2(24) THEN 1 ELSE Pow2(Log2Floor(a) - 23)
RoundTo(a, q) ==
    LET r == a % q
    IN IF 2 * r < q THEN a - r
       ELSE IF 2 * r > q THEN a - r + q
       ELSE IF ((a - r) \div q) % 2 = 0 THEN a - r ELSE a - r + q
RoundF32(v) ==
    IF v < 0 THEN 0 - RoundTo(0 - v, Quantum(0 - v)) ELSE RoundTo(v, Quantum(v))

ExtractF32(obj) ==
    IF obj[1] = "num" THEN Ok(RoundF32(obj[2])) ELSE Err("conversion")

\* ---------------------------------------------------------------- input vectors

\* Longest list handed to build.
MaxPoints == 2
\* Largest ef_search of a Config.
MaxEf == 2
\* Threads that query one index, each with its own Search.
NumThreads == 2

ShortVec(x, y) == PyIterable(<<PyNum(x), PyNum(y)>>)
FullVec == PyIterable([i \in 1..DIMENSIONS |-> PyNum((i % (2 * MaxVal + 1)) - MaxVal)])
LongVec == PyIterable([i \in 1..(DIMENSIONS + 1) |-> PyNum(0)])
BadVec == PyIterable(<<PyNum(1), PyStr>>)

BuildVecs == {ShortVec(1, 0), ShortVec(0, MaxVal), LongVec, BadVec}
ProbeVecs == {ShortVec(1, 0), FullVec, LongVec, BadVec, PyNotIterable}
BuildLists == UNION {[1..k -> BuildVecs] : k \in 0..MaxPoints}
Configs == [ef_search : 1..MaxEf]

\* The Hnsw objects: the one build returns and the one load returns.
Built == "built"
Loaded == "loaded"
NoSlot == "none"
Slots == {Built, Loaded}

\* ---------------------------------------------------------------- FloatArray

\* The test, were it one off.
TooLongOneOff(i) == i > DIMENSIONS

\* The test that ends the loop of try_from with the shape error; i is the
\* 0-based index enumerate() gives the item.
TooLong(i) == i >= DIMENSIONS

\* The value every element has before the loop fills it.
ZeroFill == 0

\* The 0-based indices at which an iteration of the loop would return an error.
Stops(items) ==
    {i \in 0..(Len(items) - 1) : TooLong(i) \/ ~ExtractF32(items[i + 1]).ok}

\* The error the iteration at index i returns.
StopError(items, i) ==
    IF TooLong(i) THEN Err("point array too long")
    ELSE Err(ExtractF32(items[i + 1]).err)

\* The loop, were a sequence shorter than DIMENSIONS rejected too.
TryFromLoopExactLength(items, stops) ==
    IF stops = {}
    THEN IF Len(items) < DIMENSIONS THEN Err("point array too short")
         ELSE Ok([i \in 1..DIMENSIONS |-> Unwrap(ExtractF32(items[i]))])
    ELSE StopError(items, CHOOSE k \in stops : \A j \in stops : k <= j)

\* The loop of try_from: it runs over the items in order and returns at the
\* first index that stops it, with the shape error if the index is too large
\* (the item is not looked at) and else with the item's conversion error; if
\* no index stops it, every item has been stored at its index.
TryFromLoop(items, stops) ==
    IF stops = {}
    THEN Ok([i \in 1..DIMENSIONS |->
                IF i <= Len(items) THEN Unwrap(ExtractF32(items[i]))
                ELSE ZeroFill])
    ELSE StopError(items, CHOOSE k \in stops : \A j \in stops : k <= j)

TryFromCompute(value) ==
    IF ~value.iterable THEN Err("not iterable")
    ELSE TryFromLoop(value.items, Stops(value.items))

\* The same, tabulated once over the vectors of the model.
TryFromTable == Tabulate(TryFromCompute, BuildVecs \cup ProbeVecs)
try_from(value) == Cached(TryFromTable, value, TryFromCompute(value))

\* ---------------------------------------------------------------- distance

\* SIMD registers are tuples of lanes, lane 0 first.
mm256_setzero_ps == <<0, 0, 0, 0, 0, 0, 0, 0>>
\* Load n consecutive floats starting at the 0-based offset off.
LoadPs(arr, off, n) == [l \in 1..n |-> arr[off + l]]
mm256_load_ps(arr, off) == LoadPs(arr, off, 8)
mm_load_ps(arr, off) == LoadPs(arr, off, 4)
SubPs(x, y) == [l \in DOMAIN x |-> x[l] - y[l]]
AddPs(x, y) == [l \in DOMAIN x |-> x[l] + y[l]]
FmaddPs(x, y, z) == [l \in DOMAIN x |-> x[l] * y[l] + z[l]]
mm256_extractf128_ps(x, half) == [l \in 1..4 |-> x[4 * half + l]]
mm256_castps256_ps128(x) == [l \in 1..4 |-> x[l]]
mm_movehl_ps(x, y) == <<y[3], y[4], x[3], x[4]>>
mm_shuffle_ps(x, y, imm) ==
    <<x[(imm % 4) + 1], x[((imm \div 4) % 4) + 1],
      y[((imm \div 16) % 4) + 1], y[((imm \div 64) % 4) + 1]>>
mm_add_ss(x, y) == <<x[1] + y[1], x[2], x[3], x[4]>>
mm_cvtss_f32(x) == x[1]

\* chunks_exact(8): the number of whole 8-element chunks; the rest is left out.
NumChunks == DIMENSIONS \div 8

\* The offset, were the tail taken to follow the last whole chunk but one.
TailOffsetEarly == 8 * (NumChunks - 1)

\* Offset of the 4-wide tail load.
TailOffset == DIMENSIONS - 4

\* The loop over the zipped chunks; c is the 0-based chunk number.
RECURSIVE ChunkLoop(_, _, _, _)
ChunkLoop(a, b, c, acc_8x) ==
    IF c >= NumChunks THEN acc_8x
    ELSE LET lh_8x == mm256_load_ps(a, 8 * c)
             rh_8x == mm256_load_ps(b, 8 * c)
             diff == SubPs(lh_8x, rh_8x)
         IN ChunkLoop(a, b, c + 1, FmaddPs(diff, diff, acc_8x))

\* The horizontal sum of the four lanes that ends distance.
HorizontalSum(acc) ==
    LET lower == mm_movehl_ps(acc, acc)
        acc1 == AddPs(acc, lower)
        upper == mm_shuffle_ps(acc1, acc1, 1)
        acc2 == mm_add_ss(acc1, upper)
    IN mm_cvtss_f32(acc2)

distance(a, b) ==
    LET acc_8x == ChunkLoop(a, b, 0, mm256_setzero_ps)
        upperHalf == mm256_extractf128_ps(acc_8x, 1)
        right == mm256_castps256_ps128(acc_8x)
        acc_4x == AddPs(upperHalf, right)
        lh_4x == mm_load_ps(a, TailOffset)
        rh_4x == mm_load_ps(b, TailOffset)
        diff == SubPs(lh_4x, rh_4x)
    IN HorizontalSum(FmaddPs(diff, diff, acc_4x))

\* ---------------------------------------------------------------- inputs

\* The points and engine states these inputs lead to.
ValidPoints(vecs) == {Unwrap(r) : r \in {x \in {try_from(v) : v \in vecs} : x.ok}}
KnownInners ==
    {[built |-> TRUE, ef_search |-> e, points |-> l] :
        e \in 1..MaxEf,
        l \in UNION {[1..k -> ValidPoints(BuildVecs)] : k \in 0..MaxPoints}}
KnownProbes == ValidPoints(ProbeVecs)

\* ---------------------------------------------------------------- the engine
\* instant_distance::{Builder, Hnsw, Search}: the graph engine behind the facade.
\* It is modelled by its contract: build keeps the points and ef_search and
\* numbers the points densely; search leaves in the buffer up to ef_search
\* candidates in ascending distance, ties by identifier.

Null == [built |-> FALSE, ef_search |-> 0, points |-> <<>>]

EngineBuild(points, config) ==
    [inner |-> [built |-> TRUE, ef_search |-> config.ef_search, points |-> points],
     ids |-> [i \in 1..Len(points) |-> i - 1]]

\* c comes before d in the engine's ranking.
Closer(c, d) ==
    \/ c.distance < d.distance
    \/ c.distance = d.distance /\ c.pid < d.pid

RECURSIVE Ranked(_, _)
Ranked(cands, k) ==
    IF k = 0 \/ cands = {} THEN <<>>
    ELSE LET first == CHOOSE c \in cands : \A d \in cands \ {c} : Closer(c, d)
         IN <<first>> \o Ranked(cands \ {first}, k - 1)

\* instant_distance::Hnsw::search: the candidates left in the buffer.
EngineSearchCompute(inner, point) ==
    Ranked({[pid |-> i - 1, distance |-> distance(point, inner.points[i])] :
                i \in 1..Len(inner.points)},
           inner.ef_search)

\* The same, tabulated once over the engine states and probes of the model.
EngineSearchKey(key) == EngineSearchCompute(key[1], key[2])
EngineSearchTable == Tabulate(EngineSearchKey, KnownInners \X KnownProbes)
EngineSearch(inner, point) ==
    Cached(EngineSearchTable, <<inner, point>>, EngineSearchCompute(inner, point))

\* instant_distance::Search::default and Search::get.
EngineSearchDefault == <<>>
EngineSearchGet(results, idx) ==
    IF idx < Len(results) THEN Some(results[idx + 1]) ELSE None

\* ---------------------------------------------------------------- persistence
\* A file is a sequence of bytes: bincode writes a u64 as 8 bytes and an f32 as
\* the 4 bytes of its IEEE-754 bit pattern, low byte first.

RECURSIVE Shr8(_, _)
Shr8(n, k) == IF k = 0 THEN n ELSE Shr8(n \div 256, k - 1)

RECURSIVE FromLe(_, _, _)
FromLe(bytes, off, k) ==
    IF k = 0 THEN 0 ELSE bytes[off + 1] + 256 * FromLe(bytes, off + 1, k - 1)

U64Bytes(n) == [k \in 1..8 |-> Shr8(n, k - 1) % 256]
U64FromBytes(bytes, off) == FromLe(bytes, off, 8)

\* The bit pattern of v: sign, biased exponent, the significand without its
\* leading bit.
F32Bytes(v) ==
    IF v = 0 THEN <<0, 0, 0, 0>>
    ELSE LET a == Abs(v)
             e == Log2Floor(a)
             ex == e + 127
             mant == (a - Pow2(e)) * Pow2(23 - e)
         IN <<mant % 256,
              (mant \div 256) % 256,
              (ex % 2) * 128 + mant \div Pow2(16),
              (IF v < 0 THEN 128 ELSE 0) + ex \div 2>>

F32FromBytes(bytes, off) ==
    LET sign == bytes[off + 4] \div 128
        ex == (bytes[off + 4] % 128) * 2 + bytes[off + 3] \div 128
        mant == (bytes[off + 3] % 128) * Pow2(16) + bytes[off + 2] * 256 + bytes[off + 1]
        sig == Pow2(23) + mant
        mag == IF ex = 0 THEN 0
               ELSE IF ex >= 150 THEN sig * Pow2(ex - 150)
               ELSE sig \div Pow2(150 - ex)
    IN IF sign = 1 THEN 0 - mag ELSE mag

\* Bytes of one serialized FloatArray.
ArrayBytes == 4 * DIMENSIONS

\* The array written as a sequence: its length in front of its elements, cut
\* to the bytes an array takes.
SerializeFloatArrayPrefixed(p) ==
    LET ser == [i \in 1..DIMENSIONS |-> F32Bytes(p[i])]
        head == U64Bytes(DIMENSIONS)
    IN [j \in 1..ArrayBytes |->
            IF j <= 8 THEN head[j]
            ELSE ser[((j - 9) \div 4) + 1][((j - 9) % 4) + 1]]

\* #[serde(with = "BigArray")] [f32; DIMENSIONS]: the DIMENSIONS elements in
\* order, with no length in front.
SerializeFloatArray(p) ==
    LET ser == [i \in 1..DIMENSIONS |-> F32Bytes(p[i])]
    IN [j \in 1..ArrayBytes |-> ser[((j - 1) \div 4) + 1][((j - 1) % 4) + 1]]
\* ... read back from the bytes that follow the 0-based offset off.
DeserializeFloatArray(bytes, off) ==
    [i \in 1..DIMENSIONS |-> F32FromBytes(bytes, off + 4 * (i - 1))]

HeaderBytes == 16

\* Serialize for instant_distance::Hnsw<FloatArray>: ef_search, the number of
\* points, the points.
SerializeHnswCompute(inner) ==
    LET n == Len(inner.points)
        ser == [k \in 1..n |-> SerializeFloatArray(inner.points[k])]
        head == U64Bytes(inner.ef_search) \o U64Bytes(n)
    IN [j \in 1..(HeaderBytes + n * ArrayBytes) |->
            IF j <= HeaderBytes THEN head[j]
            ELSE ser[((j - HeaderBytes - 1) \div ArrayBytes) + 1]
                    [((j - HeaderBytes - 1) % ArrayBytes) + 1]]

\* The same, tabulated once over the engine states of the model.
SerializeHnswTable == Tabulate(SerializeHnswCompute, KnownInners)
SerializeHnsw(inner) ==
    Cached(SerializeHnswTable, inner, SerializeHnswCompute(inner))

DeserializeHnswCompute(bytes) ==
    IF Len(bytes) < HeaderBytes THEN Err("deserialization error")
    ELSE LET ef == U64FromBytes(bytes, 0)
             n == U64FromBytes(bytes, 8)
         IN IF Len(bytes) < HeaderBytes + n * ArrayBytes
            THEN Err("deserialization error")
            ELSE Ok([built |-> TRUE, ef_search |-> ef,
                     points |-> [k \in 1..n |->
                        DeserializeFloatArray(bytes, HeaderBytes + (k - 1) * ArrayBytes)]])

\* The same, tabulated once over the files dump writes in the model.
KnownFiles == {SerializeHnswTable[inner] : inner \in KnownInners}
DeserializeHnswTable == Tabulate(DeserializeHnswCompute, KnownFiles)
DeserializeHnsw(bytes) ==
    Cached(DeserializeHnswTable, bytes, DeserializeHnswCompute(bytes))

\* ---------------------------------------------------------------- the facade

\* Hnsw::build: every item converted, the first error returned; then the
\* engine's build.
RECURSIVE CollectPoints(_, _, _)
CollectPoints(input, i, acc) ==
    IF i > Len(input) THEN Ok(acc)
    ELSE LET r == try_from(input[i])
         IN IF ~r.ok THEN Err(r.err)
            ELSE CollectPoints(input, i + 1, Append(acc, Unwrap(r)))

HnswBuild(input, config) ==
    LET points == CollectPoints(input, 1, <<>>)
    IN IF ~points.ok THEN Err(points.err)
       ELSE Ok(EngineBuild(Unwrap(points), config))

NoFile == [exists |-> FALSE, data |-> <<>>]
FileOf(data) == [exists |-> TRUE, data |-> data]

\* A path File::create and File::open cannot reach.
BadPath == "missing/index.bin"
GoodPath == "index.bin"
FileNames == {GoodPath, BadPath}

\* Hnsw::load: the Hnsw read from the file, or the error.
HnswLoad(fs, fname) ==
    IF fname = BadPath \/ ~fs[fname].exists THEN Err("io error")
    ELSE DeserializeHnsw(fs[fname].data)

\* Hnsw::dump: the file system afterwards and the value returned.
HnswDump(inner, fs, fname) ==
    IF fname = BadPath THEN [files |-> fs, ret |-> Err("io error")]
    ELSE [files |-> [fs EXCEPT ![fname] = FileOf(SerializeHnsw(inner))],
          ret |-> Ok("unit")]

\* Search::new.
SearchNew == [inner |-> EngineSearchDefault, cur |-> None]

\* Hnsw::search, were the cursor left where an earlier stream stood.
HnswSearchKeepCursor(inner, value, buf) ==
    LET point == try_from(value)
    IN IF ~point.ok THEN [search |-> buf, ret |-> Err(point.err)]
       ELSE [search |-> [inner |-> EngineSearch(inner, Unwrap(point)),
                         cur |-> IF buf.cur = None THEN Some(0) ELSE buf.cur],
             ret |-> Ok("unit")]

\* Hnsw::search, were the cursor reset before the probe is converted.
HnswSearchResetFirst(inner, value, buf) ==
    LET point == try_from(value)
    IN IF ~point.ok THEN [search |-> [buf EXCEPT !.cur = Some(0)], ret |-> Err(point.err)]
       ELSE [search |-> [inner |-> EngineSearch(inner, Unwrap(point)),
                         cur |-> Some(0)],
             ret |-> Ok("unit")]

\* Hnsw::search: the Search object afterwards and the value returned.
HnswSearch(inner, value, buf) ==
    LET point == try_from(value)
    IN IF ~point.ok THEN [search |-> buf, ret |-> Err(point.err)]
       ELSE [search |-> [inner |-> EngineSearch(inner, Unwrap(point)),
                         cur |-> Some(0)],
             ret |-> Ok("unit")]

\* The Candidate handed to Python for an engine candidate.
PyCandidate(c) == [pid |-> c.pid, distance |-> c.distance]

\* Search::__next__, were the cursor not advanced.
SearchNextNoAdvance(buf) ==
    IF buf.cur = None THEN [search |-> buf, ret |-> None]
    ELSE LET idx == buf.cur[1]
             candidate == EngineSearchGet(buf.inner, idx)
         IN IF candidate = None
            THEN [search |-> [buf EXCEPT !.cur = None], ret |-> None]
            ELSE [search |-> buf, ret |-> Some(PyCandidate(candidate[1]))]

\* Search::__next__, were the cursor kept at the end of the results.
SearchNextKeepCursor(buf) ==
    IF buf.cur = None THEN [search |-> buf, ret |-> None]
    ELSE LET idx == buf.cur[1]
             candidate == EngineSearchGet(buf.inner, idx)
         IN IF candidate = None
            THEN [search |-> buf, ret |-> None]
            ELSE [search |-> [buf EXCEPT !.cur = Some(idx + 1)],
                  ret |-> Some(PyCandidate(candidate[1]))]

\* Search::__next__, were an unset cursor read as the first position.
SearchNextRestart(buf) ==
    LET idx == IF buf.cur = None THEN 0 ELSE buf.cur[1]
        candidate == EngineSearchGet(buf.inner, idx)
    IN IF candidate = None
       THEN [search |-> [buf EXCEPT !.cur = None], ret |-> None]
       ELSE [search |-> [buf EXCEPT !.cur = Some(idx + 1)],
             ret |-> Some(PyCandidate(candidate[1]))]

\* Search::__next__: the Search object afterwards and the value returned.
SearchNext(buf) ==
    IF buf.cur = None THEN [search |-> buf, ret |-> None]
    ELSE LET idx == buf.cur[1]
             candidate == EngineSearchGet(buf.inner, idx)
         IN IF candidate = None
            THEN [search |-> [buf EXCEPT !.cur = None], ret |-> None]
            ELSE [search |-> [buf EXCEPT !.cur = Some(idx + 1)],
                  ret |-> Some(PyCandidate(candidate[1]))]

\* ---------------------------------------------------------------- input families

\* The sequences try_from is tried on: L items, the one at position bad (if
\* any) not a number, the others following pattern pat; every other pattern
\* holds values that no 32-bit float equals.
PatVal(pat, i) ==
    IF pat % 2 = 0 /\ i % 4 = 0 THEN Pow2(24) + 1
    ELSE ((i * pat) % (2 * MaxVal + 1)) - MaxVal
PySeq(L, bad, pat) ==
    PyIterable([i \in 1..L |-> IF i = bad THEN PyStr ELSE PyNum(PatVal(pat, i))])
Lens(short, extra) == (0..short) \cup ((DIMENSIONS - extra)..(DIMENSIONS + extra))
PyInputs(short, extra, pats) ==
    UNION {{PySeq(L, bad, pat) : bad \in 0..L, pat \in 1..pats} : L \in Lens(short, extra)}
    \cup {PyNotIterable}

\* The points distance is measured on: a base pattern with one coordinate set.
BasePoint(base) ==
    [i \in 1..DIMENSIONS |->
        IF base = 0 THEN 0 ELSE ((i * base) % (2 * MaxVal + 1)) - MaxVal]
Spike(base, i, v) == [BasePoint(base) EXCEPT ![i] = v]
Mirror(p) == [i \in 1..DIMENSIONS |-> 0 - p[DIMENSIONS + 1 - i]]
\* The pairs measured: kind selects how rhs relates to lhs.
DistPair(kind, i, v) ==
    CASE kind = 1 -> <<Spike(0, i, v), BasePoint(0)>>
      [] kind = 2 -> <<Spike(1, i, 0 - v), BasePoint(1)>>
      [] kind = 3 -> <<Spike(1, i, v), Spike(1, i, v)>>
      [] OTHER -> <<Spike(1, i, v), Mirror(Spike(1, i, v))>>
DistKinds == 1..4

\* ---------------------------------------------------------------- state

\* What has been seen of a Search since it was created: whether a query has
\* succeeded since then or since the last read that reported the end; the Hnsw
\* and the point of the last successful query; the candidates read since.
NoHist == [live |-> FALSE, ix |-> NoSlot, probe |-> <<>>, yielded |-> <<>>]
\* The last call: the operation, the object it was called on, the value it
\* returned and, for a query, what had been seen of the Search before it.
Ret(op, b, val, was) == [op |-> op, b |-> b, val |-> val, was |-> was]
NoRet == Ret("none", 0, <<>>, NoHist)
Pending == Err("pending")
NoDist == 0 - 1

Phase(h) ==
    IF h.ix = NoSlot THEN "never"
    ELSE IF ~h.live THEN "exhausted"
    ELSE IF h.yielded = <<>> THEN "unread"
    ELSE "midstream"

IdleFacade(bufs) ==
    /\ search = [b \in bufs |-> SearchNew]
    /\ ret = NoRet
    /\ hist = [b \in bufs |-> NoHist]

IdlePoint ==
    /\ pyval = PyNotIterable
    /\ conv = Pending

IdleDist ==
    /\ lhs = <<>>
    /\ rhs = <<>>
    /\ dist = NoDist

Init ==
    /\ hnsw = [s \in Slots |-> Null]
    /\ files \in {[f \in FileNames |-> NoFile],
                  [f \in FileNames |-> IF f = GoodPath THEN FileOf(<<7>>) ELSE NoFile]}
    /\ IdleFacade({1})
    /\ IdlePoint
    /\ IdleDist

\* ---------------------------------------------------------------- actions

Build(input, config) ==
    /\ ~hnsw[Built].built
    /\ LET r == HnswBuild(input, config)
       IN /\ hnsw' = IF r.ok THEN [hnsw EXCEPT ![Built] = Unwrap(r).inner] ELSE hnsw
          /\ ret' = Ret("build", 0, IF r.ok THEN Ok(Unwrap(r).ids) ELSE r, NoHist)
    /\ UNCHANGED <<files, search, hist, pyval, conv, lhs, rhs, dist>>

Load(fname) ==
    /\ ~hnsw[Loaded].built
    /\ LET r == HnswLoad(files, fname)
       IN /\ hnsw' = IF r.ok THEN [hnsw EXCEPT ![Loaded] = Unwrap(r)] ELSE hnsw
          /\ ret' = Ret("load", 0, IF r.ok THEN Ok("Hnsw") ELSE r, NoHist)
    /\ UNCHANGED <<files, search, hist, pyval, conv, lhs, rhs, dist>>

Dump(s, fname) ==
    /\ hnsw[s].built
    /\ LET r == HnswDump(hnsw[s], files, fname)
       IN /\ files' = r.files
          /\ ret' = Ret("dump", s, r.ret, NoHist)
    /\ UNCHANGED <<hnsw, search, hist, pyval, conv, lhs, rhs, dist>>

New(b) ==
    /\ search' = [search EXCEPT ![b] = SearchNew]
    /\ hist' = [hist EXCEPT ![b] = NoHist]
    /\ ret' = Ret("new", b, <<>>, NoHist)
    /\ UNCHANGED <<hnsw, files, pyval, conv, lhs, rhs, dist>>

Search(s, value, b) ==
    /\ hnsw[s].built
    /\ LET r == HnswSearch(hnsw[s], value, search[b])
       IN /\ search' = [search EXCEPT ![b] = r.search]
          /\ ret' = Ret("search", b, r.ret, hist[b])
          /\ hist' = IF r.ret.ok
                     THEN [hist EXCEPT ![b] = [live |-> TRUE, ix |-> s,
                                               probe |-> Unwrap(try_from(value)),
                                               yielded |-> <<>>]]
                     ELSE hist
    /\ UNCHANGED <<hnsw, files, pyval, conv, lhs, rhs, dist>>

\* __next__, were the cursor one variable shared by all Search objects.
NextSharedCursor(b) ==
    /\ LET r == SearchNext(search[b])
       IN /\ search' = [c \in DOMAIN search |->
                           IF c = b THEN r.search
                           ELSE [search[c] EXCEPT !.cur = r.search.cur]]
          /\ ret' = Ret("next", b, r.ret, NoHist)
          /\ hist' = IF r.ret = None
                     THEN [hist EXCEPT ![b].live = FALSE]
                     ELSE [hist EXCEPT ![b].yielded = Append(@, r.ret[1])]
    /\ UNCHANGED <<hnsw, files, pyval, conv, lhs, rhs, dist>>

Next__(b) ==
    /\ LET r == SearchNext(search[b])
       IN /\ search' = [search EXCEPT ![b] = r.search]
          /\ ret' = Ret("next", b, r.ret, NoHist)
          /\ hist' = IF r.ret = None
                     THEN [hist EXCEPT ![b].live = FALSE]
                     ELSE [hist EXCEPT ![b].yielded = Append(@, r.ret[1])]
    /\ UNCHANGED <<hnsw, files, pyval, conv, lhs, rhs, dist>>

Next ==
    \/ \E input \in BuildLists, config \in Configs : Build(input, config)
    \/ \E fname \in FileNames : Load(fname)
    \/ \E s \in Slots, fname \in FileNames : Dump(s, fname)
    \/ New(1)
    \/ \E s \in Slots, value \in ProbeVecs : Search(s, value, 1)
    \/ Next__(1)

Spec == Init /\ [][Next]_vars

\* Several threads query one index, each with its own Search.
Threads == 1..NumThreads
\* The index they share holds each valid build point once.
SharedInners ==
    {x \in KnownInners :
        /\ x.ef_search = MaxEf
        /\ Len(x.points) = Cardinality(ValidPoints(BuildVecs))
        /\ \A i, j \in 1..Len(x.points) : i # j => x.points[i] # x.points[j]}

InitConc ==
    /\ hnsw \in {[s \in Slots |-> IF s = Built THEN x ELSE Null] : x \in SharedInners}
    /\ files = [f \in FileNames |-> NoFile]
    /\ IdleFacade(Threads)
    /\ IdlePoint
    /\ IdleDist

NextConc ==
    \/ \E t \in Threads, value \in ProbeVecs : Search(Built, value, t)
    \/ \E t \in Threads : Next__(t)

SpecConc == InitConc /\ [][NextConc]_vars

\* FloatArray::try_from on its own.
InitPoint ==
    /\ hnsw = [s \in Slots |-> Null]
    /\ files = [f \in FileNames |-> NoFile]
    /\ IdleFacade({1})
    /\ pyval \in PyInputs(MaxShort, MaxExtra, NumPatterns)
    /\ conv = Pending
    /\ IdleDist

Convert ==
    /\ conv = Pending
    /\ conv' = try_from(pyval)
    /\ UNCHANGED <<hnsw, files, search, ret, hist, pyval, lhs, rhs, dist>>

NextPoint == Convert

SpecPoint == InitPoint /\ [][NextPoint]_vars

\* FloatArray::distance on its own.
InitDist ==
    /\ hnsw = [s \in Slots |-> Null]
    /\ files = [f \in FileNames |-> NoFile]
    /\ IdleFacade({1})
    /\ IdlePoint
    /\ \E kind \in DistKinds, i \in 1..DIMENSIONS, v \in 1..MaxVal :
          /\ lhs = DistPair(kind, i, v)[1]
          /\ rhs = DistPair(kind, i, v)[2]
    /\ dist = NoDist

Measure ==
    /\ dist = NoDist
    /\ dist' = distance(lhs, rhs)
    /\ UNCHANGED <<hnsw, files, search, ret, hist, pyval, conv, lhs, rhs>>

NextDist == Measure

SpecDist == InitDist /\ [][NextDist]_vars

\* ---------------------------------------------------------------- properties

\* The Candidates a drained buffer holding these engine results hands out.
Candidates(results) == [i \in 1..Len(results) |-> PyCandidate(results[i])]
Prefix(seq, k) == SubSeq(seq, 1, k)
Bufs == DOMAIN search

\* C1: after a successful query that left n results in a Search, the reads
\* that follow hand out the results in the buffer's order, the i-th read the
\* result at position i-1, none skipped or repeated, and a read reports the end
\* only once all n have been handed out: the (n+1)-th read.
C1_StreamInOrder ==
    \A b \in Bufs :
        LET h == hist[b]
            all == Candidates(search[b].inner)
            k == Len(h.yielded)
        IN h.ix # NoSlot =>
              /\ k <= Len(all)
              /\ h.yielded = Prefix(all, k)
              /\ ~h.live => k = Len(all)

\* A stream of two results has been read to its end.
C1_Witness ==
    /\ ret.op = "next" /\ ret.val = None
    /\ hist[1].ix # NoSlot /\ ~hist[1].live
    /\ Len(hist[1].yielded) = 2
    /\ hist[1].yielded[1] # hist[1].yielded[2]

\* C2: the cursor is None when no query has succeeded since the Search was
\* created or since the last read that reported the end; otherwise it is
\* Some(p), p the number of Candidates read since the last successful query,
\* and p is at most the number of results of that query.
C2_CursorInvariant ==
    \A b \in Bufs :
        IF ~hist[b].live THEN search[b].cur = None
        ELSE /\ search[b].cur = Some(Len(hist[b].yielded))
             /\ Len(hist[b].yielded) <= Len(search[b].inner)

\* One of two results has been read: the cursor stands at the second.
C2_Witness ==
    /\ ret.op = "next" /\ ret.val # None
    /\ hist[1].live
    /\ Len(search[1].inner) = 2
    /\ search[1].cur = Some(1)

\* C3: a read on a Search that was never queried, or whose last read reported
\* the end with no successful query since, reports the end again.
C3_EndIsSticky ==
    [][(ret'.op = "next" /\ ~hist[ret'.b].live)
          => (ret'.val = None /\ ~hist'[ret'.b].live /\ search'[ret'.b].cur = None)]_vars

\* A read has reported the end of a stream that held results.
C3_Witness ==
    /\ ret.op = "next" /\ ret.val = None
    /\ ~hist[1].live
    /\ Len(search[1].inner) > 0
    /\ search[1].cur = None

\* C4: a successful query, whatever the Search was doing, puts the cursor on
\* the first result, and the Candidates read after it are the results the
\* engine gives for this query, from the first on.
C4_LatestQueryOnly ==
    \A b \in Bufs :
        LET h == hist[b]
        IN h.live =>
              /\ h.yielded = Prefix(Candidates(EngineSearch(hnsw[h.ix], h.probe)),
                                    Len(h.yielded))
              /\ (ret.op = "search" /\ ret.b = b /\ ret.val.ok)
                    => (search[b].cur = Some(0) /\ h.yielded = <<>>)

\* A query with another probe has come part-way through a stream.
C4_Witness ==
    /\ ret.op = "search" /\ ret.val.ok
    /\ Phase(ret.was) = "midstream"
    /\ Len(ret.was.yielded) < Len(search[1].inner)
    /\ ret.was.probe # hist[1].probe
    /\ EngineSearch(hnsw[hist[1].ix], hist[1].probe)
          # EngineSearch(hnsw[ret.was.ix], ret.was.probe)

\* C5: a query whose probe is rejected changes nothing: not the Search (its
\* results and cursor), not the Hnsw, not the files.
C5_RejectedProbe ==
    [][(ret'.op = "search" /\ ~ret'.val.ok)
          => (search' = search /\ hist' = hist /\ hnsw' = hnsw /\ files' = files)]_vars

\* A probe that is too long has been rejected part-way through a stream.
C5_Witness ==
    /\ ret.op = "search" /\ ~ret.val.ok
    /\ ret.val.err = "point array too long"
    /\ Phase(ret.was) = "midstream"
    /\ search[1].cur = Some(1)

\* ---- FloatArray::try_from (SpecPoint)

Items == pyval.items
IsNum(obj) == obj[1] = "num"
AllNumbers == pyval.iterable /\ \A i \in 1..Len(Items) : IsNum(Items[i])
\* The 1-based positions of the items that are no numbers.
NotNumbers == {i \in 1..Len(Items) : ~IsNum(Items[i])}
Converted == conv # Pending

\* C6: for a sequence of L convertible values, construction fails with "point
\* array too long" when L > DIMENSIONS and else gives a point of DIMENSIONS
\* elements, the first L the inputs as 32-bit floats in order, the others 0.
C6_DimensionEnforced ==
    (Converted /\ AllNumbers) =>
        IF Len(Items) > DIMENSIONS
        THEN conv = Err("point array too long")
        ELSE /\ conv.ok
             /\ DOMAIN Unwrap(conv) = 1..DIMENSIONS
             /\ \A i \in 1..DIMENSIONS :
                   Unwrap(conv)[i] = IF i <= Len(Items) THEN RoundF32(Items[i][2]) ELSE 0

\* A sequence one short of DIMENSIONS has been converted and padded.
C6_Witness ==
    /\ Converted /\ AllNumbers
    /\ Len(Items) = DIMENSIONS - 1
    /\ conv.ok
    /\ Unwrap(conv)[DIMENSIONS - 1] # 0
    /\ Unwrap(conv)[DIMENSIONS] = 0

\* C7 as stated: a sequence with an item, at any position, that is no number
\* fails with the conversion error.
C7_AnyPositionConversionError ==
    (Converted /\ pyval.iterable /\ NotNumbers # {}) => conv = Err("conversion")

\* C7 amended: such a sequence fails; with the conversion error when the
\* first item that is no number is among the first DIMENSIONS items, and with
\* "point array too long" when it comes after them.
C7_FirstStopDecides ==
    (Converted /\ pyval.iterable /\ NotNumbers # {}) =>
        LET first == CHOOSE i \in NotNumbers : \A j \in NotNumbers : i <= j
        IN /\ ~conv.ok
           /\ first <= DIMENSIONS => conv.err = "conversion"
           /\ first > DIMENSIONS => conv.err = "point array too long"

\* The last of DIMENSIONS items is no number: the conversion error.
C7_Witness ==
    /\ Converted /\ pyval.iterable
    /\ NotNumbers = {DIMENSIONS}
    /\ conv = Err("conversion")

\* ---- FloatArray::distance (SpecDist)

RECURSIVE SumSq(_, _, _, _)
\* The sum of (a[i] - b[i])^2 over i in lo..hi.
SumSq(a, b, lo, hi) ==
    IF lo > hi THEN 0
    ELSE IF lo = hi THEN (a[lo] - b[lo]) * (a[lo] - b[lo])
    ELSE LET mid == (lo + hi) \div 2
         IN SumSq(a, b, lo, mid) + SumSq(a, b, mid + 1, hi)

Measured == dist # NoDist

\* C10: distance(a, b) is the sum over all DIMENSIONS coordinates of the
\* squared difference, every coordinate counted once; so it is symmetric, not
\* negative, and 0 from a point to itself.
C10_SquaredEuclidean ==
    Measured =>
        /\ dist = SumSq(lhs, rhs, 1, DIMENSIONS)
        /\ dist = distance(rhs, lhs)
        /\ dist >= 0
        /\ lhs = rhs => dist = 0

\* Two points that differ in the last coordinate only have been measured.
C10_Witness ==
    /\ Measured
    /\ lhs[DIMENSIONS] # rhs[DIMENSIONS]
    /\ \A i \in 1..(DIMENSIONS - 1) : lhs[i] = rhs[i]
    /\ dist > 0

\* ---- persistence (Spec)

\* What a fresh Search hands out after query(inner, value): the error, or the
\* Candidates read up to the end.
RECURSIVE DrainStream(_)
DrainStream(buf) ==
    LET r == SearchNext(buf)
    IN IF r.ret = None THEN <<>> ELSE <<r.ret[1]>> \o DrainStream(r.search)
StreamOf(inner, value) ==
    LET r == HnswSearch(inner, value, SearchNew)
    IN IF r.ret.ok THEN [ok |-> TRUE, err |-> "none", stream |-> DrainStream(r.search)]
       ELSE [ok |-> FALSE, err |-> r.ret.err, stream |-> <<>>]
SameStreams(x, y) == \A value \in ProbeVecs : StreamOf(x, value) = StreamOf(y, value)

\* C8: dump leaves the Hnsw as it was, load of the file it wrote succeeds, and
\* the Hnsw load returns gives, for every probe and a fresh Search, the
\* stream the dumped one gives.
C8_RoundTrip ==
    [][/\ (ret'.op = "dump" /\ ret'.val.ok) =>
             /\ hnsw' = hnsw
             /\ LET y == HnswLoad(files', GoodPath)
                IN y.ok /\ SameStreams(Unwrap(y), hnsw[ret'.b])
       /\ (ret'.op = "load" /\ ret'.val.ok) =>
             /\ hnsw'[Built] = hnsw[Built]
             /\ SameStreams(hnsw'[Loaded], hnsw[Built])]_vars

\* An index of two points has been dumped and loaded, and a query on
\* the loaded one has found both.
C8_Witness ==
    /\ hnsw[Loaded].built
    /\ Len(hnsw[Loaded].points) = 2
    /\ hist[1].ix = Loaded
    /\ Len(hist[1].yielded) = 2

\* ---- concurrent queries (SpecConc)

\* C9: a query or read by one thread leaves the Hnsw and every other thread's
\* Search as they were, and what each thread has read since its last query
\* is what that query gives when run alone.
C9_OwnBufferOnly ==
    [][/\ hnsw' = hnsw
       /\ \A t \in Threads \ {ret'.b} : search'[t] = search[t] /\ hist'[t] = hist[t]
       /\ \A t \in Threads :
             hist'[t].live =>
                LET h == hist'[t]
                IN h.yielded = Prefix(Candidates(EngineSearch(hnsw[Built], h.probe)),
                                      Len(h.yielded))]_vars

\* Two threads are part-way through the streams of different probes.
C9_Witness ==
    /\ hist[1].live /\ hist[2].live
    /\ hist[1].probe # hist[2].probe
    /\ Len(hist[1].yielded) = 1
    /\ Len(hist[2].yielded) = 2
    /\ hist[1].yielded[1] # hist[2].yielded[1]

====
